---- MODULE Spec2Model ----
(***************************************************************************)
(* Model of homework.py: a bot that polls the homework-review API on a     *)
(* fixed period and forwards status changes and failures to a Telegram     *)
(* chat.  main() is a sequential program; the model follows its control    *)
(* flow with one action per statement group and draws the outcomes of the  *)
(* environment (credentials, the clock, the HTTP reply, the delivery of a  *)
(* message) from small sets.                                               *)
(***************************************************************************)
EXTENDS Integers, Sequences, FiniteSets, TLC

(***************************************************************************)
(* Values.                                                                 *)
(***************************************************************************)

\* Largest clock reading / current_date the environment produces.
MaxTime == 2

\* The value of a name that is not set: os.getenv() and dict.get() give None.
Absent == "<None>"

\* Python truthiness of an optional string: None and '' are falsy.
Falsy(v) == v \in {Absent, ""}

\* JSON scalars, all of one shape so that any two can be compared.
JInt(n) == [t |-> "int", n |-> n, s |-> ""]
JStr(s) == [t |-> "str", n |-> 0, s |-> s]
JNull == [t |-> "null", n |-> 0, s |-> ""]

\* A piece of text built by an f-string: a fixed prefix, a fixed wording and
\* the value substituted into it.
Text(prefix, fmt, arg) == [prefix |-> prefix, fmt |-> fmt, arg |-> arg]

\* The empty string ''.
EmptyText == Text("", "", JNull)

RETRY_PERIOD == 600

ENDPOINT == "https://practicum.yandex.ru/api/user_api/homework_statuses/"

TokenNames == <<"PRACTICUM_TOKEN", "TELEGRAM_TOKEN", "TELEGRAM_CHAT_ID">>

\* What os.getenv() can give for one name.
TokenValues == {Absent, "", "secret"}

HOMEWORK_VERDICTS ==
    [approved |-> "Rabota proverena: revyueru vsyo ponravilos. Ura!",
     reviewing |-> "Rabota vzyata na proverku revyuerom.",
     rejected |-> "Rabota proverena: u revyuera est zamechaniya."]

(***************************************************************************)
(* Exceptions.  A raised exception is its class and its str(); NoError is  *)
(* "nothing raised".                                                       *)
(***************************************************************************)

Raised(exc, fmt, arg) == [exc |-> exc, text |-> Text("", fmt, arg)]

NoError == [exc |-> "", text |-> EmptyText]

\* Classes of the Python runtime and of the telegram library that can be
\* raised here: all derive from Exception.
LibraryErrors ==
    {"TypeError", "ConnectionError", "AttributeError", "builtins.KeyError",
     "UnboundLocalError", "TelegramError"}

\* The classes imported from the project's exceptions module and raised here.
\* The module is not part of the sources at hand; its classes are taken to be
\* ordinary Exception subclasses, unrelated to requests.RequestException and to
\* TelegramError, with the default str().
ExceptionBase ==
    [KeyError |-> "Exception", URLError |-> "Exception",
     HomeworkStatusError |-> "Exception"]

\* CaughtByMain with a handler that names the classes of the exceptions
\* module only.
CaughtByMain_Narrow(exc) == exc \in DOMAIN ExceptionBase

\* `except Exception` in main() catches the class.
CaughtByMain(exc) ==
    \/ exc \in LibraryErrors
    \/ exc \in DOMAIN ExceptionBase /\ ExceptionBase[exc] = "Exception"

(***************************************************************************)
(* The bodies the API can answer with.                                     *)
(***************************************************************************)

NameValues == {Absent, "", "hw1"}

StatusValues == {Absent, "", "approved", "reviewing", "rejected", "unknown_status"}

\* An element of the homeworks list: a mapping, or something that is not one.
Records ==
    [type : {"dict"}, homework_name : NameValues, status : StatusValues]
        \cup {[type |-> "str", homework_name |-> Absent, status |-> Absent]}

\* The records that may follow the first one.
TailRecords ==
    {r \in Records :
        \/ r.type = "str"
        \/ r.homework_name = "hw1" /\ r.status \in {"rejected", "unknown_status"}}

HomeworkLists ==
    {<< >>} \cup {<<r>> : r \in Records}
            \cup {<<r, s>> : r \in Records, s \in TailRecords}

\* The value under "homeworks": a list, or something that is not a list.
NotAList == [type |-> "str", items |-> << >>]

HomeworksValues == {[type |-> "list", items |-> l] : l \in HomeworkLists} \cup {NotAList}

\* The value under "current_date": an integer, or whatever else the API sends.
DateValues == {JInt(n) : n \in 1..MaxTime} \cup {JStr("soon")}

ResponseKeys == {"homeworks", "current_date"}

Dict(keys, homeworks, current_date) ==
    [type |-> "dict", keys |-> keys,
     homeworks |-> IF "homeworks" \in keys THEN homeworks ELSE NotAList,
     current_date |-> IF "current_date" \in keys THEN current_date ELSE JNull]

\* A body that is not a mapping.
NotADict == [type |-> "list", keys |-> {}, homeworks |-> NotAList, current_date |-> JNull]

Bodies ==
    {NotADict} \cup
    {Dict(k, h, d) : k \in SUBSET ResponseKeys, h \in HomeworksValues, d \in DateValues}

\* A local variable that no assignment of the current iteration has bound.
Unbound == [type |-> "unbound", keys |-> {}, homeworks |-> NotAList, current_date |-> JNull]

\* What the HTTP client can do with one request: fail in transport, or deliver
\* a reply with a status code and a decoded body.
Replies ==
    {[exception |-> TRUE, status_code |-> 0, body |-> NotADict],
     [exception |-> FALSE, status_code |-> 500, body |-> NotADict]}
        \cup {[exception |-> FALSE, status_code |-> 200, body |-> b] : b \in Bodies}

(***************************************************************************)
(* The functions of homework.py.  A function that can raise returns the    *)
(* pair of what it raised (NoError if nothing) and its value.              *)
(***************************************************************************)

Return(value) == [raised |-> NoError, value |-> value]

Raise(exc, fmt, arg, novalue) == [raised |-> Raised(exc, fmt, arg), value |-> novalue]

\* check_tokens(): the names whose value is falsy, in the order of `source`,
\* or None when there is none.
None == [none |-> TRUE, list |-> << >>]

\* check_tokens that tests `value is None` instead of the truth value.
check_tokens_IsNone(source) ==
    LET token_list == SelectSeq(TokenNames, LAMBDA key : source[key] = Absent)
    IN  IF token_list # << >> THEN [none |-> FALSE, list |-> token_list] ELSE None

check_tokens(source) ==
    LET token_list == SelectSeq(TokenNames, LAMBDA key : Falsy(source[key]))
    IN  IF token_list # << >> THEN [none |-> FALSE, list |-> token_list] ELSE None

\* Truthy that takes the list for false unless every name is in it.
Truthy_AllMissing(result) == ~result.none /\ Len(result.list) = Len(TokenNames)

\* The truth value of what check_tokens() returned, as tested on line 110.
Truthy(result) == ~result.none /\ result.list # << >>

\* send_message without the except clause: a TelegramError reaches the caller.
send_message_Propagating(message, delivered) ==
    [raised |-> IF delivered THEN NoError
                ELSE Raised("TelegramError", "Oshibka otpravki", JNull),
     attempts |-> << [text |-> message, delivered |-> delivered] >>]

\* send_message(): one call of bot.send_message; a TelegramError is caught and
\* logged.  Gives what the caller sees raised and the delivery attempts made.
send_message(message, delivered) ==
    [raised |-> NoError,
     attempts |-> << [text |-> message, delivered |-> delivered] >>]

\* The query parameters of the request.
Params(ts) == [from_date |-> ts]

\* get_api_answer that reports a bad status code the way it reports a
\* transport failure.
get_api_answer_Conflated(ts, reply) ==
    LET params == Params(ts)
    IN  IF reply.exception \/ reply.status_code # 200
        THEN Raise("ConnectionError", "Sboi zaprosa k ENDPOINT c params",
                   params.from_date, Unbound)
        ELSE Return(reply.body)

\* get_api_answer(): the request with params {'from_date': timestamp}.
get_api_answer(ts, reply) ==
    LET params == Params(ts)
    IN  IF reply.exception
        THEN Raise("ConnectionError", "Sboi zaprosa k ENDPOINT c params",
                   params.from_date, Unbound)
        ELSE IF reply.status_code # 200
             THEN IF ExceptionBase["URLError"] = "RequestException"
                  THEN Raise("ConnectionError", "Sboi zaprosa k ENDPOINT c params",
                             params.from_date, Unbound)
                  ELSE Raise("URLError", "Sboi zaprosa k ENDPOINT", JNull, Unbound)
             ELSE Return(reply.body)

\* check_response with the type of homeworks tested before the presence of
\* current_date.
check_response_TypeFirst(resp) ==
    IF resp.type # "dict"
    THEN Raise("TypeError", "Struktura dannykh ne sootvetstvuet zadannoi", JNull, << >>)
    ELSE IF "homeworks" \notin resp.keys
    THEN Raise("KeyError", "V API-otvete otsutstvuet klyuch homeworks", JNull, << >>)
    ELSE IF resp.homeworks.type # "list"
    THEN Raise("TypeError", "Poluchennaya struktura dannykh ne sootvetstvuet zadannoi",
               JNull, << >>)
    ELSE IF "current_date" \notin resp.keys
    THEN Raise("KeyError", "V API-otvete otsutstvuet klyuch current_date", JNull, << >>)
    ELSE Return(resp.homeworks.items)

\* check_response without the check for current_date.
check_response_NoDateCheck(resp) ==
    IF resp.type # "dict"
    THEN Raise("TypeError", "Struktura dannykh ne sootvetstvuet zadannoi", JNull, << >>)
    ELSE IF "homeworks" \notin resp.keys
    THEN Raise("KeyError", "V API-otvete otsutstvuet klyuch homeworks", JNull, << >>)
    ELSE IF resp.homeworks.type # "list"
    THEN Raise("TypeError", "Poluchennaya struktura dannykh ne sootvetstvuet zadannoi",
               JNull, << >>)
    ELSE Return(resp.homeworks.items)

\* check_response(): the four checks, in the order of the code.
check_response(resp) ==
    IF resp.type # "dict"
    THEN Raise("TypeError", "Struktura dannykh ne sootvetstvuet zadannoi", JNull, << >>)
    ELSE IF "homeworks" \notin resp.keys
    THEN Raise("KeyError", "V API-otvete otsutstvuet klyuch homeworks", JNull, << >>)
    ELSE IF "current_date" \notin resp.keys
    THEN Raise("KeyError", "V API-otvete otsutstvuet klyuch current_date", JNull, << >>)
    ELSE IF resp.homeworks.type # "list"
    THEN Raise("TypeError", "Poluchennaya struktura dannykh ne sootvetstvuet zadannoi",
               JNull, << >>)
    ELSE Return(resp.homeworks.items)

\* parse_status that falls back on a default verdict for a status that is not
\* in the table.
parse_status_Default(hw) ==
    IF hw.type # "dict"
    THEN Raise("AttributeError", "object has no attribute get", JNull, EmptyText)
    ELSE IF Falsy(hw.homework_name)
    THEN Raise("KeyError", "Otsutstvuet klyuch homework_name", JNull, EmptyText)
    ELSE IF Falsy(hw.status)
    THEN Raise("KeyError", "Otsutstvuet klyuch status", JNull, EmptyText)
    ELSE Return(Text("Izmenilsya status proverki raboty",
                     IF hw.status \in DOMAIN HOMEWORK_VERDICTS
                     THEN HOMEWORK_VERDICTS[hw.status]
                     ELSE HOMEWORK_VERDICTS["reviewing"],
                     JStr(hw.homework_name)))

\* parse_status(): the notification text for one record.
parse_status(hw) ==
    IF hw.type # "dict"
    THEN Raise("AttributeError", "object has no attribute get", JNull, EmptyText)
    ELSE IF Falsy(hw.homework_name)
    THEN Raise("KeyError", "Otsutstvuet klyuch homework_name", JNull, EmptyText)
    ELSE IF Falsy(hw.status)
    THEN Raise("KeyError", "Otsutstvuet klyuch status", JNull, EmptyText)
    ELSE IF hw.status \notin DOMAIN HOMEWORK_VERDICTS
    THEN Raise("HomeworkStatusError", "Neizvestnyi status proverki raboty", JNull, EmptyText)
    ELSE Return(Text("Izmenilsya status proverki raboty", HOMEWORK_VERDICTS[hw.status],
                     JStr(hw.homework_name)))

\* The f-string of line 127 applied to the caught exception.
FailureMessage(err) == Text("Sboi v rabote programmy: ", err.text.fmt, err.text.arg)

Hello == Text("", "Privet!", JNull)

\* Differs without the comparison: every failure is notified.
Differs_Always(last, msg) == TRUE

\* Line 129: the failure text is compared with the last one notified.
Differs(last, msg) == last # msg

\* NextCursor that never moves the cursor.
NextCursor_Stuck(ts, resp) == ts

\* Line 125: the cursor after a cycle that raised nothing.
NextCursor(ts, resp) == resp.current_date

\* AfterEmpty that skips line 125, as a `continue` after the log would.
AfterEmpty_Continue == "finally"

\* Lines 120-121: an empty list is logged and the body goes on to line 125.
AfterEmpty == "advance"

\* AfterHandler for a body whose line 125 follows the try statement.
AfterHandler_Advance == "advance"

\* Lines 131-132: after the except clause the finally clause runs.
AfterHandler == "finally"

\* Selected that takes the last record of the list.
Selected_Last(homeworks) == homeworks[Len(homeworks)]

\* Line 123: the record given to parse_status is homework[0].
Selected(homeworks) == homeworks[1]

\* Recorded that keeps the old text when the notification was not delivered.
Recorded_IfDelivered(last, msg, delivered) == IF delivered THEN msg ELSE last

\* Line 131: the text notified becomes the last error, whatever became of the
\* delivery.
Recorded(last, msg, delivered) == msg

\* time_sleep that returns at once.
time_sleep_Skipped(sofar, seconds) == sofar

\* Line 133: time.sleep(seconds), on a count of the seconds slept so far.
time_sleep(sofar, seconds) == sofar + seconds

(***************************************************************************)
(* main().                                                                 *)
(***************************************************************************)

VARIABLES
    env,                  \* the three environment variables read at import
    pc,                   \* where main() is
    token_list,           \* what check_tokens() returned
    bot,                  \* TRUE once telegram.Bot has been constructed
    timestamp,            \* the cursor
    start_error_message,  \* the text of the last failure notified
    reply,                \* what the HTTP client did with the last request
    response,             \* local of the loop body
    homework,             \* local of the loop body
    error,                \* the exception in flight to the except clause
    message,              \* the failure text of the current iteration
    hello,                \* the deliveries attempted at startup
    attempts,             \* the deliveries attempted in the current iteration
    params,               \* the query parameters of the last request issued
    slept,                \* seconds slept since the last request
    previous              \* what the iteration before the current one did

vars == <<env, pc, token_list, bot, timestamp, start_error_message, reply,
          response, homework, error, message, hello, attempts, params, slept, previous>>

\* The reply before the request of the iteration has been made.
NoReply == [exception |-> FALSE, status_code |-> 0, body |-> Unbound]

\* The parameters before any request has been issued.
NoRequest == [from_date |-> [t |-> "unset", n |-> 0, s |-> ""]]

\* The error notifications among a sequence of delivery attempts.
ErrorNotifications(as) ==
    SelectSeq(as, LAMBDA a : a.text.prefix = "Sboi v rabote programmy: ")

StatusNotifications(as) ==
    SelectSeq(as, LAMBDA a : a.text.prefix = "Izmenilsya status proverki raboty")

\* The attempts whose delivery failed.
Lost(as) == SelectSeq(as, LAMBDA a : ~a.delivered)

\* What an iteration did, as seen when it reaches its sleep: the failure text
\* (EmptyText if nothing was raised), the from_date it asked with, the
\* notifications attempted and how many of them were not delivered, the
\* current_date of the response when nothing was raised, and the text of the
\* latest failure up to and including this iteration.
Summary(msg, as, resp, pars, last) ==
    [message |-> msg,
     from_date |-> pars.from_date,
     errors |-> Len(ErrorNotifications(as)),
     statuses |-> Len(StatusNotifications(as)),
     lost |-> Len(Lost(as)),
     current_date |-> IF msg = EmptyText THEN resp.current_date ELSE JNull,
     last_failure |-> IF msg = EmptyText THEN last ELSE msg]

NoIteration == Summary(EmptyText, << >>, Unbound, NoRequest, EmptyText)

Init ==
    /\ env \in [{TokenNames[i] : i \in 1..Len(TokenNames)} -> TokenValues]
    /\ pc = "main"
    /\ token_list = None
    /\ bot = FALSE
    /\ timestamp = JNull
    /\ start_error_message = EmptyText
    /\ reply = NoReply
    /\ response = Unbound
    /\ homework = << >>
    /\ error = NoError
    /\ message = EmptyText
    /\ hello = << >>
    /\ attempts = << >>
    /\ params = NoRequest
    /\ slept = 0
    /\ previous = NoIteration

\* Lines 110-111: a non-empty list of missing names raises ValueError, which
\* nothing catches.
MainCheckTokens ==
    /\ pc = "main"
    /\ token_list' = check_tokens(env)
    /\ pc' = IF Truthy(token_list') THEN "aborted" ELSE "init"
    /\ UNCHANGED <<env, reply, bot, timestamp, start_error_message, response, homework,
                   error, message, hello, attempts, params, slept, previous>>

\* MainInit without line 114.
MainInit_NoHello ==
    /\ pc = "init"
    /\ bot' = TRUE
    /\ \E now \in 1..MaxTime : timestamp' = JInt(now)
    /\ pc' = "request"
    /\ start_error_message' = EmptyText
    /\ UNCHANGED <<env, reply, token_list, response, homework, message, attempts,
                   params, slept, previous, hello, error>>

\* Lines 112-115: the client, the cursor from the clock, the hello message.
MainInit ==
    /\ pc = "init"
    /\ bot' = TRUE
    /\ \E now \in 1..MaxTime : timestamp' = JInt(now)
    /\ \E delivered \in BOOLEAN :
          LET s == send_message(Hello, delivered)
          IN  /\ hello' = hello \o s.attempts
              /\ error' = s.raised
              /\ pc' = IF s.raised # NoError THEN "crashed" ELSE "request"
    /\ start_error_message' = EmptyText
    /\ UNCHANGED <<env, reply, token_list, response, homework, message, attempts,
                   params, slept, previous>>

\* Line 118.
MainGetApiAnswer ==
    /\ pc = "request"
    /\ \E reply_ \in Replies :
          LET r == get_api_answer(timestamp, reply_)
          IN  /\ reply' = reply_
              /\ response' = r.value
              /\ error' = r.raised
              /\ pc' = IF r.raised # NoError THEN "except" ELSE "check"
    /\ params' = Params(timestamp)
    /\ slept' = 0
    /\ UNCHANGED <<env, token_list, bot, timestamp, start_error_message, homework,
                   message, hello, attempts, previous>>

\* MainCheckResponse with the assignment of line 125 moved up to follow the
\* validation.
MainCheckResponse_AdvanceEarly ==
    /\ pc = "check"
    /\ LET r == check_response(response)
       IN  /\ homework' = r.value
           /\ error' = r.raised
           /\ pc' = IF r.raised # NoError THEN "except" ELSE "parse"
           /\ timestamp' = IF r.raised # NoError THEN timestamp
                            ELSE NextCursor(timestamp, response)
    /\ UNCHANGED <<env, reply, token_list, bot, start_error_message, response,
                   message, hello, attempts, params, slept, previous>>

\* Line 119.
MainCheckResponse ==
    /\ pc = "check"
    /\ LET r == check_response(response)
       IN  /\ homework' = r.value
           /\ error' = r.raised
           /\ pc' = IF r.raised # NoError THEN "except" ELSE "parse"
    /\ UNCHANGED <<env, reply, token_list, bot, timestamp, start_error_message, response,
                   message, hello, attempts, params, slept, previous>>

\* Lines 120-124.
MainParseStatus ==
    /\ pc = "parse"
    /\ IF homework = << >>
       THEN /\ pc' = AfterEmpty
            /\ UNCHANGED <<error, attempts>>
       ELSE LET p == parse_status(Selected(homework))
            IN  IF p.raised # NoError
                THEN /\ error' = p.raised
                     /\ pc' = "except"
                     /\ UNCHANGED attempts
                ELSE \E delivered \in BOOLEAN :
                        LET s == send_message(p.value, delivered)
                        IN  /\ attempts' = attempts \o s.attempts
                            /\ error' = s.raised
                            /\ pc' = IF s.raised # NoError THEN "except" ELSE "advance"
    /\ UNCHANGED <<env, reply, token_list, bot, timestamp, start_error_message, response,
                   homework, message, hello, params, slept, previous>>

\* MainAdvance that also clears the last error after a cycle that raised
\* nothing.
MainAdvance_ClearsLastError ==
    /\ pc = "advance"
    /\ response.type # "unbound" /\ "current_date" \in response.keys
    /\ timestamp' = NextCursor(timestamp, response)
    /\ start_error_message' = EmptyText
    /\ pc' = "finally"
    /\ UNCHANGED <<env, reply, token_list, bot, response, homework, error,
                   message, hello, attempts, params, slept, previous>>

\* MainAdvance that keeps the cursor when a notification of the cycle was not
\* delivered.
MainAdvance_IfDelivered ==
    /\ pc = "advance"
    /\ response.type # "unbound" /\ "current_date" \in response.keys
    /\ timestamp' = IF Lost(attempts) = << >>
                     THEN NextCursor(timestamp, response) ELSE timestamp
    /\ pc' = "finally"
    /\ UNCHANGED <<env, reply, token_list, bot, start_error_message, response,
                   homework, error, message, hello, attempts, params, slept,
                   previous>>

\* Line 125: timestamp = response['current_date'].
MainAdvance ==
    /\ pc = "advance"
    /\ IF response.type = "unbound"
       THEN /\ error' = Raised("UnboundLocalError", "local variable response", JNull)
            /\ pc' = "except"
            /\ UNCHANGED timestamp
       ELSE IF "current_date" \notin response.keys
       THEN /\ error' = Raised("builtins.KeyError", "current_date", JNull)
            /\ pc' = "except"
            /\ UNCHANGED timestamp
       ELSE /\ timestamp' = NextCursor(timestamp, response)
            /\ pc' = "finally"
            /\ UNCHANGED error
    /\ UNCHANGED <<env, reply, token_list, bot, start_error_message, response, homework,
                   message, hello, attempts, params, slept, previous>>

\* Lines 126-131.  An exception that `except Exception` does not catch, or one
\* raised inside the handler, leaves main() after the finally clause.
MainExcept ==
    /\ pc = "except"
    /\ IF ~CaughtByMain(error.exc)
       THEN /\ pc' = "uncaught"
            /\ UNCHANGED <<message, attempts, start_error_message, error>>
       ELSE /\ message' = FailureMessage(error)
            /\ IF Differs(start_error_message, message')
               THEN \E delivered \in BOOLEAN :
                       LET s == send_message(message', delivered)
                       IN  /\ attempts' = attempts \o s.attempts
                           /\ error' = s.raised
                           /\ IF s.raised # NoError
                              THEN /\ pc' = "uncaught"
                                   /\ UNCHANGED start_error_message
                              ELSE /\ pc' = AfterHandler
                                   /\ start_error_message' =
                                         Recorded(start_error_message, message',
                                                  delivered)
               ELSE /\ pc' = AfterHandler
                    /\ error' = NoError
                    /\ UNCHANGED <<attempts, start_error_message>>
    /\ UNCHANGED <<env, reply, token_list, bot, timestamp, response, homework, hello,
                   params, slept, previous>>

\* Lines 132-133: time.sleep(RETRY_PERIOD), then the next turn of while True.
\* The locals of the loop body are read only after the coming iteration has
\* assigned them again, so what this iteration leaves in them is represented
\* by the unbound value; `previous` keeps what the iteration did.
MainFinally ==
    /\ pc = "finally"
    /\ slept' = time_sleep(slept, RETRY_PERIOD)
    /\ pc' = "request"
    /\ previous' = Summary(message, attempts, response, params, previous.last_failure)
    /\ reply' = NoReply
    /\ response' = Unbound
    /\ homework' = << >>
    /\ error' = NoError
    /\ message' = EmptyText
    /\ attempts' = << >>
    /\ UNCHANGED <<env, token_list, bot, timestamp, start_error_message, hello,
                   params>>

Next ==
    \/ MainCheckTokens
    \/ MainInit
    \/ MainGetApiAnswer
    \/ MainCheckResponse
    \/ MainParseStatus
    \/ MainAdvance
    \/ MainExcept
    \/ MainFinally

Spec == Init /\ [][Next]_vars

(***************************************************************************)
(* Properties.                                                             *)
(***************************************************************************)

\* The iteration that has reached its sleep raised an error, and so did the
\* one before it.
TwoFailures == pc = "finally" /\ message # EmptyText /\ previous.message # EmptyText

\* The error notifications attempted in the current iteration.
ErrorsNow == Len(ErrorNotifications(attempts))

\* C1 as stated: of two consecutive failing iterations the second notifies
\* exactly when its text differs from the first's, two failures with the same
\* text give exactly one notification between them, and a change of text
\* gives a second one.
C1_Original ==
    TwoFailures =>
        /\ (ErrorsNow = 1) <=> (message # previous.message)
        /\ message = previous.message => previous.errors + ErrorsNow = 1
        /\ message # previous.message => ErrorsNow = 1

\* C1, amended: of two consecutive failing iterations the second attempts one
\* error notification exactly when its text differs from the first's and none
\* otherwise; two failures with the same text give at most one notification
\* between them, namely the one of the first failure if that one was notified.
C1_Dedup ==
    TwoFailures =>
        /\ ErrorsNow \in {0, 1}
        /\ (ErrorsNow = 1) <=> (message # previous.message)
        /\ message = previous.message =>
              /\ ErrorsNow = 0
              /\ previous.errors + ErrorsNow <= 1
        /\ message # previous.message => ErrorsNow = 1
        /\ start_error_message = message

C1_Witness ==
    /\ TwoFailures
    /\ message = previous.message
    /\ previous.errors = 1
    /\ ErrorsNow = 0

\* The positions of main() inside an iteration, after its request.
InIteration == {"check", "parse", "advance", "except", "finally"}

C2_Witness ==
    /\ pc = "except"
    /\ previous.message # EmptyText
    /\ params = Params(timestamp)
    /\ slept = 0

\* C2: no error raised by the request, the validation or the parsing ends the
\* loop: main() never leaves with an exception, and from the handler, from the
\* sleep of a failing iteration and from the top of the loop there is always
\* a next statement to run, which is respectively the sleep, the next turn of
\* the loop, and a request with the cursor.
C2_LoopSurvives ==
    /\ [](pc # "uncaught")
    /\ [](pc \in {"except", "finally", "request"} => ENABLED Next)
    /\ [][pc = "except" => pc' = "finally" /\ message' # EmptyText]_vars
    /\ [][pc = "finally" /\ message # EmptyText =>
            pc' = "request" /\ previous'.message # EmptyText]_vars
    /\ [][pc = "request" =>
            pc' \in {"check", "except"} /\ params' = Params(timestamp)]_vars

C3_Witness ==
    /\ pc = "request"
    /\ slept = RETRY_PERIOD
    /\ previous.message # EmptyText
    /\ previous.errors = 1

\* C3: every iteration ends with exactly one sleep of RETRY_PERIOD seconds, so
\* a request that is not the first is issued after exactly that sleep and
\* nothing of an iteration runs after its sleep; the handler of a failing
\* iteration has built the text, notified it if it is new and recorded it as
\* the last error before the sleep starts.
C3_SleepEndsIteration ==
    /\ [](pc = "request" /\ params # NoRequest => slept = RETRY_PERIOD)
    /\ [](pc \in InIteration => slept = 0)
    /\ [][pc' = "request" /\ pc # "init" =>
            pc = "finally" /\ slept' = slept + RETRY_PERIOD]_vars
    /\ [][pc' = "finally" => pc \in {"advance", "except"}]_vars
    /\ [][pc = "except" =>
            /\ pc' = "finally"
            /\ slept' = 0
            /\ message' = FailureMessage(error)
            /\ start_error_message' = message'
            /\ Len(ErrorNotifications(attempts')) =
                  IF start_error_message = message' THEN 0 ELSE 1]_vars

\* The body passes the four checks of the validation.
ValidResponse(resp) ==
    /\ resp.type = "dict"
    /\ ResponseKeys \subseteq resp.keys
    /\ resp.homeworks.type = "list"

\* The record has a name and one of the three known statuses.
ValidRecord(r) ==
    /\ r.type = "dict"
    /\ r.homework_name \notin {Absent, ""}
    /\ r.status \in {"approved", "reviewing", "rejected"}

\* The response of the current iteration is valid and its first record is.
StatusChanged ==
    /\ ValidResponse(response)
    /\ response.homeworks.items # << >>
    /\ ValidRecord(response.homeworks.items[1])

C4_Witness ==
    /\ pc = "check"
    /\ previous.statuses = 1
    /\ previous.from_date # previous.current_date
    /\ params.from_date = previous.current_date

\* C4: an iteration whose response is valid, with a non-empty list whose first
\* record is valid, raises nothing, attempts exactly one notification, a
\* status notification, and sets the cursor to the response's current_date;
\* the request after it asks with that current_date as from_date.
C4_StatusThenCursor ==
    /\ StatusChanged => pc \in InIteration \ {"except"}
    /\ pc = "finally" /\ StatusChanged =>
          /\ Len(attempts) = 1
          /\ Len(StatusNotifications(attempts)) = 1
          /\ message = EmptyText
          /\ timestamp = response.current_date
    /\ pc \in InIteration /\ previous.statuses = 1 =>
          params.from_date = previous.current_date

\* The response of the current iteration is valid and lists no homework.
NothingNew == ValidResponse(response) /\ response.homeworks.items = << >>

C5_Witness ==
    /\ pc = "finally"
    /\ NothingNew
    /\ attempts = << >>
    /\ timestamp # params.from_date

\* C5: an iteration whose response is valid with an empty list attempts no
\* notification of any kind, raises nothing, and sets the cursor to the
\* response's current_date.
C5_EmptyStillAdvances ==
    NothingNew =>
        /\ attempts = << >>
        /\ pc \in InIteration \ {"except"}
        /\ pc = "finally" => message = EmptyText /\ timestamp = response.current_date

C6_Witness ==
    /\ pc = "finally"
    /\ message = FailureMessage(Raised("HomeworkStatusError",
                                       "Neizvestnyi status proverki raboty", JNull))
    /\ ValidResponse(response)
    /\ response.current_date # timestamp
    /\ timestamp = params.from_date
    /\ previous.message # EmptyText

\* C6: the cursor changes only on line 125 of a cycle that raised nothing (and
\* when it is first set at startup); an iteration in which something was
\* raised ends with the cursor it began with, and the request after it asks
\* with the same from_date.
C6_CursorKeptOnFailure ==
    /\ [][timestamp' # timestamp =>
            \/ pc = "init"
            \/ /\ pc = "advance" /\ pc' = "finally"
               /\ message = EmptyText /\ error = NoError
               /\ timestamp' = response.current_date]_vars
    /\ [](pc \in {"except", "finally"} /\ (error # NoError \/ message # EmptyText)
            => timestamp = params.from_date)
    /\ [](pc \in InIteration /\ previous.message # EmptyText
            => params.from_date = previous.from_date)

C7_Witness ==
    /\ Len(hello) = 1 /\ ~hello[1].delivered
    /\ pc = "finally"
    /\ Len(attempts) = 1 /\ ~attempts[1].delivered
    /\ previous.statuses = 1
    /\ message # EmptyText

\* C7: a delivery that fails is neither propagated nor retried: each call of
\* the notifier makes one attempt and returns normally, whatever the outcome
\* of the delivery; main() goes on from the hello to the loop, from a status
\* notification to the cursor, and from an error notification to recording
\* the text and sleeping.
C7_BestEffort ==
    /\ [](pc \notin {"crashed", "uncaught"})
    /\ [][hello' # hello =>
            Len(hello') = 1 /\ pc' = "request" /\ error' = NoError]_vars
    /\ [][attempts' # attempts /\ pc # "finally" =>
            /\ Len(attempts') = Len(attempts) + 1
            /\ error' = NoError
            /\ pc' = IF pc = "parse" THEN "advance" ELSE "finally"
            /\ pc = "except" => start_error_message' = message']_vars

\* The credentials that are missing or empty.
MissingTokens ==
    {TokenNames[i] : i \in {j \in 1..Len(TokenNames) : env[TokenNames[j]] \in {Absent, ""}}}

C8_Witness ==
    /\ pc = "aborted"
    /\ Cardinality(MissingTokens) = 1
    /\ ~bot

\* C8: with a credential missing or empty, main() stops before the client is
\* created: no message is attempted, no request is issued and the loop is not
\* entered.
C8_NoStartWithoutTokens ==
    MissingTokens # {} =>
        /\ pc \in {"main", "aborted"}
        /\ ~bot
        /\ hello = << >> /\ attempts = << >>
        /\ params = NoRequest
        /\ timestamp = JNull

C9_Witness ==
    /\ pc = "aborted"
    /\ Len(token_list.list) = 2
    /\ \E i \in 1..2 : env[token_list.list[i]] = ""

\* C9: for every combination of the three credentials the check returns the
\* names of exactly the missing or empty ones, each once, when there is one,
\* and the empty result None when there is none.
C9_ExactlyTheMissing ==
    pc # "main" =>
        IF MissingTokens = {}
        THEN token_list.none /\ token_list.list = << >>
        ELSE /\ ~token_list.none
             /\ {token_list.list[i] : i \in 1..Len(token_list.list)} = MissingTokens
             /\ Len(token_list.list) = Cardinality(MissingTokens)

\* main() has just left the validation of the current response: with the
\* list, or with what the validation raised.
Validated ==
    \/ pc = "parse"
    \/ pc = "except" /\ response.type # "unbound" /\ homework = << >>

WrongDataShape == pc = "except" /\ error.exc = "TypeError"

MissingKey(key) ==
    /\ pc = "except"
    /\ error.exc = "KeyError"
    /\ error.text.fmt = IF key = "homeworks"
                        THEN "V API-otvete otsutstvuet klyuch homeworks"
                        ELSE "V API-otvete otsutstvuet klyuch current_date"

C10_Witness ==
    /\ Validated
    /\ response.type = "dict"
    /\ response.keys = {"homeworks"}
    /\ response.homeworks.type # "list"
    /\ MissingKey("current_date")

\* C10: the validation reports the first failing check in the order mapping,
\* homeworks present, current_date present, homeworks a list (so a mapping
\* without current_date whose homeworks is no list is a missing key), and
\* returns the list, empty or not, unchanged when the four checks pass.
C10_ValidationOrder ==
    Validated =>
        /\ response.type # "dict" => WrongDataShape
        /\ response.type = "dict" /\ "homeworks" \notin response.keys
              => MissingKey("homeworks")
        /\ response.type = "dict" /\ "homeworks" \in response.keys
              /\ "current_date" \notin response.keys
              => MissingKey("current_date")
        /\ response.type = "dict" /\ ResponseKeys \subseteq response.keys
              /\ response.homeworks.type # "list"
              => WrongDataShape
        /\ ValidResponse(response) =>
              /\ pc = "parse"
              /\ error = NoError
              /\ homework = response.homeworks.items

\* main() has just left parse_status for the first record of the list: with
\* the text, which it has handed to the notifier, or with what was raised.
Parsed == homework # << >> /\ homework[1].type = "dict" /\ pc \in {"except", "advance"}

NamesKey(key) ==
    /\ pc = "except"
    /\ error.exc = "KeyError"
    /\ error.text.fmt = IF key = "homework_name"
                        THEN "Otsutstvuet klyuch homework_name"
                        ELSE "Otsutstvuet klyuch status"

C11_Witness ==
    /\ Parsed
    /\ homework[1].homework_name = "hw1"
    /\ homework[1].status = "unknown_status"
    /\ error.exc = "HomeworkStatusError"
    /\ attempts = << >>

\* C11: parsing a record fails with a missing key naming homework_name when
\* the name is absent or empty, else with a missing key naming status when
\* the status is absent or empty, else with an unknown-status error, which is
\* not a missing key, when the status is none of approved, reviewing and
\* rejected; otherwise it gives a text with the name and the verdict of that
\* status.  An unknown status never yields a text.
C11_ParseOrder ==
    Parsed =>
        LET hw == homework[1]
            named == hw.homework_name \notin {Absent, ""}
            stated == hw.status \notin {Absent, ""}
            known == hw.status \in {"approved", "reviewing", "rejected"}
        IN  /\ ~named => NamesKey("homework_name")
            /\ named /\ ~stated => NamesKey("status")
            /\ named /\ stated /\ ~known =>
                  /\ pc = "except"
                  /\ error.exc = "HomeworkStatusError"
                  /\ error.exc # "KeyError"
            /\ ~(named /\ known) => attempts = << >>
            /\ named /\ known =>
                  /\ pc = "advance"
                  /\ Len(attempts) = 1
                  /\ attempts[1].text.arg = JStr(hw.homework_name)
                  /\ attempts[1].text.fmt =
                        CASE hw.status = "approved" ->
                                "Rabota proverena: revyueru vsyo ponravilos. Ura!"
                          [] hw.status = "reviewing" ->
                                "Rabota vzyata na proverku revyuerom."
                          [] hw.status = "rejected" ->
                                "Rabota proverena: u revyuera est zamechaniya."

\* main() has just left get_api_answer.
Requested == pc = "check" \/ (pc = "except" /\ response.type = "unbound")

C12_Witness ==
    /\ Requested
    /\ ~reply.exception /\ reply.status_code = 500
    /\ error.exc = "URLError"
    /\ previous.message =
          FailureMessage(Raised("ConnectionError", "Sboi zaprosa k ENDPOINT c params",
                                params.from_date))

\* C12: a reply with a status code other than 200 always reaches the loop as
\* the request-failed error, a transport failure always as the
\* connection-failed error, never one as the other; with status 200 the body
\* is returned as it is, valid or not.
C12_TwoFailureModes ==
    Requested =>
        /\ reply # NoReply
        /\ reply.exception => pc = "except" /\ error.exc = "ConnectionError"
        /\ ~reply.exception /\ reply.status_code # 200 =>
              pc = "except" /\ error.exc = "URLError"
        /\ ~reply.exception /\ reply.status_code = 200 =>
              pc = "check" /\ error = NoError /\ response = reply.body
        /\ error.exc = "URLError" => ~reply.exception
        /\ error.exc = "ConnectionError" => reply.exception

IsHello(a) == a.text = Hello

IsNotification(a) ==
    a.text.prefix \in {"Sboi v rabote programmy: ", "Izmenilsya status proverki raboty"}

C13_Witness ==
    /\ pc = "finally"
    /\ Len(hello) = 1
    /\ previous.statuses = 1
    /\ Len(attempts) = 1 /\ IsNotification(attempts[1])

\* C13: with all credentials present exactly one hello is sent in the whole
\* run, before the first request; every message after it is a status or an
\* error notification.
C13_OneHello ==
    /\ [](MissingTokens = {} /\ pc \notin {"main", "init"} =>
            Len(hello) = 1 /\ IsHello(hello[1]))
    /\ [](params # NoRequest => Len(hello) = 1)
    /\ [](\A i \in 1..Len(attempts) :
            IsNotification(attempts[i]) /\ ~IsHello(attempts[i]))
    /\ [][hello' # hello => pc = "init" /\ hello = << >> /\ params = NoRequest]_vars

\* C14 as stated: the cursor is an integer in every state of the loop.
C14_CursorIsInteger ==
    pc \in InIteration \cup {"request"} => timestamp.t = "int"

\* The request of the current iteration failed.
RequestFailed == reply # NoReply /\ (reply.exception \/ reply.status_code # 200)

UnboundReference == Raised("UnboundLocalError", "local variable response", JNull)

\* C15 as stated: an iteration whose request failed raises an unbound-reference
\* error at line 125 before it reaches the sleep.
C15_Original ==
    pc = "finally" /\ RequestFailed => message = FailureMessage(UnboundReference)

C15_Witness ==
    /\ pc = "finally"
    /\ RequestFailed
    /\ response = Unbound
    /\ message # EmptyText
    /\ ErrorsNow = 1

\* C15, amended: an iteration whose request failed never runs line 125: the
\* error of the request goes to the handler, no unbound-reference error is
\* raised, the cursor keeps its value and the iteration reaches its sleep
\* with the text of the request's error.
C15_AdvanceSkipped ==
    RequestFailed =>
        /\ response = Unbound
        /\ pc \in {"except", "finally"}
        /\ error # UnboundReference
        /\ message # FailureMessage(UnboundReference)
        /\ timestamp = params.from_date
        /\ pc = "finally" =>
              message.fmt \in {"Sboi zaprosa k ENDPOINT c params",
                               "Sboi zaprosa k ENDPOINT"}

C16_Witness ==
    /\ pc = "finally"
    /\ StatusChanged
    /\ Len(response.homeworks.items) = 2
    /\ ~ValidRecord(response.homeworks.items[2])
    /\ message = EmptyText
    /\ Len(attempts) = 1

\* C16: with one or more records in a valid response, what the iteration does
\* is decided by record 0 and current_date alone: the text notified, the
\* error and the cursor at the sleep are those that parsing record 0 gives,
\* whatever the other records are.
C16_FirstRecordOnly ==
    pc = "finally" /\ ValidResponse(response) /\ response.homeworks.items # << >> =>
        LET first == parse_status(response.homeworks.items[1])
        IN  IF first.raised = NoError
            THEN /\ Len(attempts) = 1
                 /\ attempts[1].text = first.value
                 /\ message = EmptyText
                 /\ timestamp = response.current_date
            ELSE /\ StatusNotifications(attempts) = << >>
                 /\ message = FailureMessage(first.raised)
                 /\ timestamp = params.from_date

C17_Witness ==
    /\ pc = "finally"
    /\ message # EmptyText
    /\ previous.message = EmptyText
    /\ previous.statuses = 1
    /\ message = previous.last_failure
    /\ ErrorsNow = 0

\* C17: a cycle that raises nothing leaves the last error as it is: only the
\* handler changes it, so a failure whose text is that of the latest failure
\* before it is not notified, however many successful iterations lie between.
C17_LastErrorSurvives ==
    /\ [][start_error_message' # start_error_message => pc = "except"]_vars
    /\ [](pc \in InIteration \cup {"request"} =>
            start_error_message = IF pc = "finally" /\ message # EmptyText
                                  THEN message ELSE previous.last_failure)
    /\ [](pc = "finally" /\ message # EmptyText /\ message = previous.last_failure
            => ErrorsNow = 0)

C18_Witness ==
    /\ TwoFailures
    /\ message = previous.message
    /\ previous.errors = 1 /\ previous.lost = 1
    /\ ErrorsNow = 0

\* C18: the last error becomes the new text whenever its notification is
\* attempted, delivered or not; after a notification that was not delivered,
\* a following iteration that fails with the same text attempts nothing.
C18_RecordedEvenIfLost ==
    /\ [][pc = "except" /\ Len(attempts') > Len(attempts) =>
            start_error_message' = message']_vars
    /\ [](pc = "finally" /\ ErrorsNow = 1 => start_error_message = message)
    /\ [](TwoFailures /\ message = previous.message /\ previous.lost = 1
            => ErrorsNow = 0 /\ attempts = << >>)

C19_Witness ==
    /\ pc = "check"
    /\ previous.statuses = 1 /\ previous.lost = 1
    /\ previous.from_date # previous.current_date
    /\ params.from_date = previous.current_date

\* C19: the cursor goes to the response's current_date also when the status
\* notification of the iteration was not delivered, and the request after it
\* asks with that current_date, so nothing makes it attempt the notification
\* again.
C19_LostStatusNotRetried ==
    /\ pc = "finally" /\ Len(StatusNotifications(attempts)) = 1
          /\ Lost(attempts) # << >> =>
          /\ timestamp = response.current_date
          /\ message = EmptyText
          /\ Len(attempts) = 1
    /\ pc \in InIteration /\ previous.statuses = 1 /\ previous.lost = 1 =>
          /\ params.from_date = previous.current_date
          /\ previous.message = EmptyText

C20_Witness ==
    /\ pc = "finally"
    /\ ValidResponse(response)
    /\ message # EmptyText
    /\ ErrorsNow = 1
    /\ Len(attempts) = 1

\* C20: an iteration attempts at most one notification: a status notification
\* when the response is valid with a valid first record and nothing was
\* raised, or an error notification when something was raised and its text is
\* not the last error; never both, never two of a kind.
C20_AtMostOneAttempt ==
    /\ Len(attempts) <= 1
    /\ Len(attempts) = ErrorsNow + Len(StatusNotifications(attempts))
    /\ Len(StatusNotifications(attempts)) = 1 =>
          /\ StatusChanged
          /\ message = EmptyText
          /\ pc \in {"advance", "finally"}
    /\ ErrorsNow = 1 =>
          /\ pc = "finally"
          /\ message # EmptyText
          /\ message # previous.last_failure
    /\ pc = "finally" /\ message # EmptyText /\ message # previous.last_failure
          => ErrorsNow = 1
    /\ pc = "finally" /\ message = EmptyText /\ StatusChanged
          => Len(StatusNotifications(attempts)) = 1

====
